---------------------------- MODULE Spec2Model ----------------------------
(***************************************************************************)
(* Background tasks of the project application                             *)
(* (src/django/project/tasks.py): the reminder mails, the approval digest  *)
(* and the import of projects from the ODK server.                         *)
(*                                                                         *)
(* Strings that the code takes apart (column names, column values, row     *)
(* ids) are sequences of tokens, so that replace(), lower(), "in" and      *)
(* int() are computed and not assumed.  Python dicts are functions on      *)
(* their keys; dict.get(k, default) is Get.                                *)
(***************************************************************************)
EXTENDS Integers, Sequences, FiniteSets, TLC

VARIABLES
    pc,             \* where the running task is
    projects,       \* the Project table
    mails,          \* the mails sent, in order
    log,            \* what the task logged, in order
    organisations,  \* the Organisation table (names)
    columns,        \* a row's orderedColumns, as handed to the parser
    parsed,         \* what odk_columns_parser returned
    requests,       \* the HTTP requests made to the ODK server, in order
    rows,           \* the export's rows (res.json())
    row_i,          \* how many rows start_sync has gone through
    users,          \* the User table (emails)
    profiles,       \* the UserProfile table
    countries,      \* the Country table, in query order
    reviews,        \* the ReviewScore table
    production,     \* settings.EMAIL_SENDING_PRODUCTION
    todo,           \* what the running loop has still to visit
    donors,         \* the Donor table, each donor with its custom questions
    kept,           \* what exclude_specific_project_stages returned
    run,            \* which run of sync_project_from_odk this is
    before          \* the Project table and the mails when the run began

notify == <<profiles, countries, reviews, production, todo, donors, kept>>

runs == <<run, before>>

vars == <<pc, projects, mails, log, organisations, columns, parsed, requests,
          rows, row_i, users, runs, notify>>

\* ------------------------------------------------------------- bounds
MaxCols == 3
MaxRows == 2
MaxProjects == 2
MaxReviews == 2
MaxCountries == 2
MaxRuns == 2

\* ---------------------------------------------------- Python helpers

Get(d, k, default) == IF k \in DOMAIN d THEN d[k] ELSE default

Put(d, k, v) == [x \in (DOMAIN d) \cup {k} |-> IF x = k THEN v ELSE d[x]]

Pop(d, ks) == [x \in (DOMAIN d) \ ks |-> d[x]]

\* `tok in s` for a string s held as a sequence of tokens
Contains(s, tok) == \E i \in 1..Len(s) : s[i] = tok

Range(s) == {s[i] : i \in 1..Len(s)}

\* str.lower(), token by token
LowerTok(t) ==
    CASE t = "H" -> "h"
      [] t = "X" -> "x"
      [] t = "Discontinued" -> "discontinued"
      [] t = "Scale" -> "scale"
      [] t = "Handover" -> "handover"
      [] t = "COMPLETE" -> "complete"
      [] t = "Complete" -> "complete"
      [] t = "INCOMPLETE" -> "incomplete"
      [] OTHER -> t

Lower(s) == [i \in 1..Len(s) |-> LowerTok(s[i])]

\* value.replace(tok, '')
RemoveTok(s, tok) == SelectSeq(s, LAMBDA t : t # tok)

Digits == {"0", "1", "2", "3"}

DigitVal(t) == CASE t = "0" -> 0 [] t = "1" -> 1 [] t = "2" -> 2 [] OTHER -> 3

RECURSIVE DecVal(_)
DecVal(s) == IF s = <<>> THEN 0
             ELSE 10 * DecVal(SubSeq(s, 1, Len(s) - 1)) + DigitVal(s[Len(s)])

\* a result or a raised exception
Ok(v) == [ok |-> TRUE, val |-> v]
Raise(e) == [ok |-> FALSE, exc |-> e]

\* int(str): ValueError unless the text is a run of digits
PyInt(s) == IF s # <<>> /\ Range(s) \subseteq Digits THEN Ok(DecVal(s))
            ELSE Raise("ValueError")

uuid_parser(value) == RemoveTok(value, "uuid:")

escaped_int_converter(value) ==
    IF value # <<>> /\ value[1] = "'" THEN PyInt(RemoveTok(value, "'"))
    ELSE PyInt(value)

\* text.split(',')
RECURSIVE Split(_)
Split(s) ==
    IF ~Contains(s, ",") THEN <<s>>
    ELSE LET i == CHOOSE j \in 1..Len(s) :
                     s[j] = "," /\ \A k \in 1..(j - 1) : s[k] # ","
         IN <<SubSeq(s, 1, i - 1)>> \o Split(SubSeq(s, i + 1, Len(s)))

string_to_list(text) == SelectSeq(Split(text), LAMBDA p : p # <<>>)

\* json.loads followed by map(escaped_int_converter): the text must be a
\* JSON array of integers.  Any other text either is no JSON (ValueError)
\* or is JSON that the map cannot convert (TypeError); both leave the
\* converter by an exception before anything is assigned.
IntListOf(value) ==
    IF Len(value) >= 2 /\ value[1] = "[" /\ value[Len(value)] = "]"
    THEN LET inner == SubSeq(value, 2, Len(value) - 1)
             parts == IF inner = <<>> THEN <<>> ELSE Split(inner)
         IN IF \A i \in 1..Len(parts) :
                   parts[i] # <<>> /\ Range(parts[i]) \subseteq Digits
            THEN Ok([i \in 1..Len(parts) |-> DecVal(parts[i])])
            ELSE Raise("ValueError")
    ELSE Raise("ValueError")

\* ------------------------------------------------ odk_columns_parser
\* The parser's working state: the project dict, int_link_collection, the
\* second pass's context["dhi_index"], the Organisation names created by
\* get_or_create, and what was logged or printed.
\* odk_name None is <<>>: a column name is never empty where it is compared.

default_nld == [clients |-> 0, facilities |-> 0, health_workers |-> 0]

DirectColumns == {"name", "contact_email", "contact_name", "end_date",
                  "geographic_scope", "implementation_dates",
                  "implementation_overview", "mobile_application",
                  "repository", "start_date", "wiki"}

IntListColumns == {"health_focus_areas", "health_information_systems",
                   "health_system_challenges", "licenses",
                   "interoperability_standards"}

IntListKey(c) == CASE c = "health_information_systems" -> "his_bucket"
                   [] c = "health_system_challenges" -> "hsc_challenges"
                   [] OTHER -> c

\* next((item for item in coll if item[key] == v), None): the index of the
\* first such item, 0 for None
FirstIndex(coll, key, v) ==
    IF \E i \in 1..Len(coll) : coll[i][key] = v
    THEN CHOOSE i \in 1..Len(coll) :
            coll[i][key] = v /\ \A j \in 1..(i - 1) : coll[j][key] # v
    ELSE 0

Failed(st, e) == [st EXCEPT !.exc = e]

SetField(st, k, v) == [st EXCEPT !.project = Put(st.project, k, v)]

SetInt(st, k, value) ==
    LET r == escaped_int_converter(value)
    IN IF r.ok THEN SetField(st, k, r.val) ELSE Failed(st, r.exc)

SetNld(st, k, value) ==
    LET nld == Get(st.project, "national_level_deployment", default_nld)
        r == escaped_int_converter(value)
    IN IF r.ok
       THEN SetField(st, "national_level_deployment", [nld EXCEPT ![k] = r.val])
       ELSE Failed(st, r.exc)

SelectLink(st, value, column_type) ==
    LET r == escaped_int_converter(value)
        id == IF r.ok THEN r.val ELSE 0
        st1 == IF r.ok THEN st
               ELSE [st EXCEPT !.log = Append(@, <<"Value error", value>>)]
        k == FirstIndex(st.ilc, "id", id)
    IN IF id = 0 THEN st1
       ELSE IF k = 0 THEN Failed(st1, "TypeError")
       ELSE [st1 EXCEPT !.ilc[k] =
                Put(Put(@, "selected", TRUE), "odk_name",
                    Append(column_type, "_url"))]

first_level_converter(value, column_type, st) ==
    LET c == IF Len(column_type) = 1 THEN column_type[1] ELSE ""
    IN CASE c = "name" -> SetField(st, "name", value)
         [] c = "organization" ->
              LET r == escaped_int_converter(value)
              IN IF r.ok THEN SetField(st, "organisation", <<"id", r.val>>)
                 ELSE [SetField(st, "organisation", <<"org", value>>)
                          EXCEPT !.orgs = @ \cup {value}]
         [] c = "country" -> SetInt(st, "country", value)
         [] c \notin {"name", "organization", "country"}
            /\ Contains(column_type, "platforms") ->
              LET r == escaped_int_converter(value)
              IN IF r.ok
                 THEN SetField(st, "platforms",
                               Append(Get(st.project, "platforms", <<>>),
                                      [id |-> r.val]))
                 ELSE Failed(st, r.exc)
         [] OTHER ->
            CASE c \in {"clients", "facilities", "health_workers"} ->
                   SetNld(st, c, value)
              [] c \in DirectColumns \ {"name"} -> SetField(st, c, value)
              [] c \in {"donors", "implementing_partners"} ->
                   SetField(st, c, string_to_list(value))
              [] c = "government_investor" -> SetInt(st, c, value)
              [] c \in IntListColumns ->
                   LET r == IntListOf(value)
                   IN IF r.ok THEN SetField(st, IntListKey(c), r.val)
                      ELSE Failed(st, r.exc)
              [] c \notin ({"clients", "facilities", "health_workers",
                            "donors", "implementing_partners",
                            "government_investor"}
                           \cup DirectColumns \cup IntListColumns)
                 /\ Contains(column_type, "interoperability_link_")
                 /\ ~Contains(column_type, "_url") ->
                   SelectLink(st, value, column_type)
              [] OTHER -> st

SetStrategies(st, value) ==
    LET platforms == Get(st.project, "platforms", <<>>)
        k == st.dhi_index + 1
        r == IntListOf(value)
    IN IF "platforms" \notin DOMAIN st.project THEN Failed(st, "KeyError")
       ELSE IF k > Len(platforms) THEN Failed(st, "IndexError")
       ELSE IF ~r.ok THEN Failed(st, r.exc)
       ELSE [SetField(st, "platforms",
                      [platforms EXCEPT ![k] = Put(@, "strategies", r.val)])
                EXCEPT !.dhi_index = @ + 1]

SetLinkUrl(st, value, column_type) ==
    LET k == FirstIndex(st.ilc, "odk_name", column_type)
    IN IF k = 0 THEN st
       ELSE [st EXCEPT !.ilc[k] = Put(@, "link", Lower(value))]

second_level_converter(value, column_type, st) ==
    IF Contains(column_type, "dhi") THEN SetStrategies(st, value)
    ELSE IF Contains(column_type, "interoperability_link_")
            /\ Contains(column_type, "_url")
    THEN SetLinkUrl(st, value, column_type)
    ELSE st

\* `if column_type and value`
HasColumnAndValue(column) ==
    /\ Get(column, "column", <<>>) # <<>>
    /\ Get(column, "value", <<>>) # <<>>

\* one iteration of the first loop: the exception is printed and dropped
FirstPassStep(st, column) ==
    IF ~HasColumnAndValue(column) THEN st
    ELSE LET r == first_level_converter(column.value, column.column, st)
         IN IF r.exc = "" THEN r
            ELSE [r EXCEPT !.exc = "",
                           !.log = Append(@, <<"traceback", column.column>>)]

\* one iteration of the second loop
SecondPassStep(st, column) ==
    IF ~HasColumnAndValue(column) THEN st
    ELSE LET r == second_level_converter(column.value, column.column, st)
         IN IF r.exc = "" THEN r
            ELSE IF r.exc = "IndexError"
            THEN [r EXCEPT !.exc = "",
                           !.log = Append(@, <<"invalid / missing value",
                                               column.column>>)]
            ELSE [r EXCEPT !.exc = "",
                           !.log = Append(@, <<"traceback", column.column>>)]

\* the first loop over the columns
RECURSIVE FirstPass(_, _)
FirstPass(st, cols) ==
    IF cols = <<>> THEN st
    ELSE FirstPass(FirstPassStep(st, Head(cols)), Tail(cols))

\* the second loop over the columns
RECURSIVE SecondPass(_, _)
SecondPass(st, cols) ==
    IF cols = <<>> THEN st
    ELSE SecondPass(SecondPassStep(st, Head(cols)), Tail(cols))

\* lines 366-369: odk_name is popped and the links are put in the project
ParserResult(st) ==
    [project |-> Put(st.project, "interoperability_links",
                     [i \in 1..Len(st.ilc) |-> Pop(st.ilc[i], {"odk_name"})]),
     orgs |-> st.orgs, log |-> st.log]

\* links is the sequence of InteroperabilityLink ids
odk_columns_parser(cols, links, orgs) ==
    LET st0 == [project |-> <<>>,
                ilc |-> [i \in 1..Len(links) |->
                            [id |-> links[i],
                             odk_name |-> <<>>]],
                dhi_index |-> 0, orgs |-> orgs, log |-> <<>>, exc |-> ""]
    IN ParserResult(SecondPass(FirstPass(st0, cols), cols))

\* --------------------------------------------- the parser on its own
\* InteroperabilityLink.objects.all(), by id
interoperability_links == <<1, 2>>

Col(c, v) == [column |-> c, value |-> v]

ColumnSet ==
    { Col(<<"platforms", "_1">>, <<"1">>),
      Col(<<"platforms", "_2">>, <<"'", "2">>),
      Col(<<"platforms", "_2">>, <<"x">>),
      Col(<<"dhi", "_1">>, <<"[", "1", "]">>),
      Col(<<"dhi", "_2">>, <<"[", "2", ",", "3", "]">>),
      Col(<<"dhi", "_1">>, <<>>),
      Col(<<"dhi", "_2">>, <<"x">>),
      Col(<<"interoperability_link_", "a">>, <<"1">>),
      Col(<<"interoperability_link_", "b">>, <<"'", "2">>),
      Col(<<"interoperability_link_", "b">>, <<"3">>),
      Col(<<"interoperability_link_", "a", "_url">>, <<"H", "x">>),
      Col(<<"interoperability_link_", "b", "_url">>, <<"x", "X">>),
      Col(<<"name">>, <<"x">>),
      Col(<<"organization">>, <<"x">>),
      [column |-> <<"country">>] }

SeqsUpTo(S, n) == UNION {[1..k -> S] : k \in 0..n}

ParserIdle == columns = <<>> /\ parsed = <<>>
FirstRun == run = 1 /\ before = [projects |-> {}, mails |-> <<>>]
OdkIdle == /\ requests = <<>> /\ rows = <<>> /\ row_i = 0 /\ users = {}
           /\ FirstRun
NotifyIdle == /\ profiles = {} /\ countries = <<>> /\ reviews = {}
              /\ production = FALSE /\ todo = <<>> /\ donors = {}
              /\ kept = {}

InitParser ==
    /\ pc = "input"
    /\ columns \in SeqsUpTo(ColumnSet, MaxCols)
    /\ parsed = <<>>
    /\ projects = {} /\ mails = <<>> /\ log = <<>> /\ organisations = {}
    /\ OdkIdle /\ NotifyIdle

ParseColumns ==
    /\ pc = "input"
    /\ \E r \in {odk_columns_parser(columns, interoperability_links,
                                     organisations)} :
          /\ parsed' = r.project
          /\ organisations' = r.orgs
          /\ log' = r.log
    /\ pc' = "parsed"
    /\ UNCHANGED <<projects, mails, columns, requests, rows, row_i, users, runs,
                   notify>>

NextParser == ParseColumns

SpecParser == InitParser /\ [][NextParser]_vars

\* ------------------------------------------------ sync_project_from_odk
\* Python's None and True, where the code compares them with strings
PyNone == "None"
PyTrue == "True"
\* a Project's odk_etag that is None (an etag is never this text)
NoEtag == <<"None">>

\* ProjectDraftSerializer.is_valid(): the names of the fields in error.
\* name is required; contact_email must be an address.
SerializerErrors(data) ==
    (IF "name" \in DOMAIN data THEN {} ELSE {"name"})
    \cup (IF "contact_email" \in DOMAIN data
             /\ ~Contains(data["contact_email"], "@")
          THEN {"contact_email"} ELSE {})

NextId(table) == IF table = {} THEN 1
                 ELSE 1 + CHOOSE n \in {p.id : p \in table} :
                             \A q \in table : q.id <= n

\* ProjectDraftSerializer.save() of a new project
SerializerCreate(table, data, owner) ==
    table \cup {[id |-> NextId(table),
                 odk_id |-> Get(data, "odk_id", NoEtag),
                 odk_etag |-> Get(data, "odk_etag", NoEtag),
                 draft |-> Pop(data, {"odk_id", "odk_etag", "odk_extra_data"}),
                 owner |-> owner,
                 saves |-> 1]}

\* ProjectDraftSerializer.save() of an existing one, with preserve_etag
SerializerUpdate(table, existing, data) ==
    (table \ {existing})
    \cup {[existing EXCEPT
              !.odk_etag = Get(data, "odk_etag", NoEtag),
              !.draft = Pop(data, {"odk_id", "odk_etag", "odk_extra_data"}),
              !.saves = @ + 1]}

\* the working state of one run: the tables it writes and what it emits
World == [projects |-> projects, mails |-> mails, log |-> log,
          organisations |-> organisations]

parse_odk_data(row, odk_etag, odk_id, odk_extra_data, orgs) ==
    LET r == odk_columns_parser(Get(row, "orderedColumns", <<>>),
                                interoperability_links, orgs)
    IN [r EXCEPT !.project =
           Put(Put(Put(@, "odk_etag", odk_etag), "odk_id", odk_id),
               "odk_extra_data", odk_extra_data)]

\* existing is the set holding the project to update, or {} (None)
new_or_updated_serializer(data, existing) ==
    [data |-> data, instance |-> existing]

\* lines 395-400: the validated data is saved; a new project needs its owner
SaveValid(w, serialized, user_email) ==
    IF serialized.instance # {}
    THEN [w EXCEPT !.projects =
             SerializerUpdate(@, CHOOSE e \in serialized.instance : TRUE,
                              serialized.data)]
    ELSE IF user_email \notin users
    THEN [w EXCEPT !.log = Append(@, <<"No user with following email",
                                       user_email>>)]
    ELSE [w EXCEPT
             !.mails = Append(@, [to |-> user_email,
                                  project |-> NextId(w.projects)]),
             !.projects = SerializerCreate(@, serialized.data, user_email)]

\* line 393: is_valid(raise_exception=True) on the reduced data
SecondValidation(w, serialized, errors2, user_email) ==
    IF errors2 # {}
    THEN [w EXCEPT !.log = @ \o << <<"Validation error/s:">>,
                                  <<"errors", errors2>> >>]
    ELSE SaveValid(w, serialized, user_email)

\* mutant: the fields in error are not removed before the retry
DropErrors_KeepAll(data, errors) == data

\* lines 390-391: parsed.pop(error, None) for every error
DropErrors(data, errors) == Pop(data, errors)

\* lines 388-393: the first is_valid(), and on errors the one retry
FirstValidation(w, data, errors, existing, user_email) ==
    IF errors = {}
    THEN SaveValid(w, new_or_updated_serializer(data, existing), user_email)
    ELSE SecondValidation(
             [w EXCEPT !.log = Append(@, <<"errors", errors>>)],
             new_or_updated_serializer(DropErrors(data, errors), existing),
             SerializerErrors(DropErrors(data, errors)),
             user_email)

SaveParsed(w, r, existing, user_email) ==
    FirstValidation([w EXCEPT !.organisations = r.orgs], r.project,
                    SerializerErrors(r.project), existing, user_email)

serialize_and_save(w, row, odk_etag, odk_id, extra, existing, user_email) ==
    SaveParsed(w,
               parse_odk_data(row, odk_etag, odk_id, extra, w.organisations),
               existing, user_email)

\* mutant: a project whose etag is None is updated like any other
UpdateOrSkip_IgnoreOverride(w, row, odk_etag, odk_id, odk_extra_data, e) ==
    IF e.odk_etag # odk_etag
    THEN serialize_and_save([w EXCEPT !.log = Append(@, <<"updating">>)],
                            row, odk_etag, odk_id, odk_extra_data, {e}, PyNone)
    ELSE [w EXCEPT !.log = Append(@, <<"same version">>)]

\* lines 416-422: a project with this odk_id exists
UpdateOrSkip(w, row, odk_etag, odk_id, odk_extra_data, e) ==
    IF e.odk_etag = NoEtag
    THEN [w EXCEPT !.log = Append(@, <<"Overridden by ui">>)]
    ELSE IF e.odk_etag # odk_etag
    THEN serialize_and_save([w EXCEPT !.log = Append(@, <<"updating">>)],
                            row, odk_etag, odk_id, odk_extra_data, {e}, PyNone)
    ELSE [w EXCEPT !.log = Append(@, <<"same version">>)]

\* mutant: the project of the odk_id is never found
ProjectsByOdkId_NotFound(table, odk_id) == {}

\* Project.objects.get(odk_id=odk_id)
ProjectsByOdkId(table, odk_id) == {p \in table : p.odk_id = odk_id}

save_or_update_project(w, row, user_email, odk_etag, odk_id, odk_extra_data) ==
    IF ProjectsByOdkId(w.projects, odk_id) = {}
    THEN serialize_and_save([w EXCEPT !.log = Append(@, <<"importing">>)],
                            row, odk_etag, odk_id, odk_extra_data, {},
                            user_email)
    ELSE UpdateOrSkip(w, row, odk_etag, odk_id, odk_extra_data,
                      CHOOSE x \in ProjectsByOdkId(w.projects, odk_id) : TRUE)

\* `savepoint_column_type.lower() == 'complete' and deleted != 'true'`
IsCompleteNotDeleted(row) ==
    /\ LowerTok(Get(row, "savepointType", "INCOMPLETE")) = "complete"
    /\ Get(row, "deleted", PyTrue) # "true"

odk_extra_data_of(row) ==
    [create_user |-> Get(row, "createUser", PyNone),
     last_update_user |-> Get(row, "lastUpdateUser", PyNone),
     locale |-> Get(row, "locale", PyNone),
     savepoint_timestamp |-> Get(row, "savepointTimestamp", PyNone),
     savepoint_creator |-> Get(row, "savepointCreator", PyNone),
     filterScope |-> Get(row, "filterScope", PyNone)]

\* one iteration of start_sync's loop
SyncRow(w, row) ==
    IF IsCompleteNotDeleted(row)
    THEN save_or_update_project(
             [w EXCEPT !.log = Append(@, <<"Processing", uuid_parser(row["id"]),
                                           uuid_parser(row["rowETag"])>>)],
             row, Get(row, "createUser", PyNone), uuid_parser(row["rowETag"]),
             uuid_parser(row["id"]), odk_extra_data_of(row))
    ELSE [w EXCEPT !.log = @ \o << <<"Processing", uuid_parser(row["id"]),
                                     uuid_parser(row["rowETag"])>>,
                                   <<"Incomplete or deleted">> >>]

\* a row of the export; a key whose value is Absent is left out of the row
Absent == "<absent>"

MkRow(id, etag, savepoint, deleted, user, cols) ==
    LET all == [id |-> id, rowETag |-> etag, savepointType |-> savepoint,
                deleted |-> deleted, createUser |-> user,
                orderedColumns |-> cols]
        keys == {"id", "rowETag", "orderedColumns", "createUser"}
                \cup (IF savepoint = Absent THEN {} ELSE {"savepointType"})
                \cup (IF deleted = Absent THEN {} ELSE {"deleted"})
    IN [k \in keys |-> all[k]]

ColsValid == <<Col(<<"name">>, <<"x">>),
               Col(<<"contact_email">>, <<"x", "@", "x">>)>>
ColsBadEmail == <<Col(<<"name">>, <<"x">>), Col(<<"contact_email">>, <<"x">>)>>
ColsNoName == <<Col(<<"contact_email">>, <<"x">>)>>

\* the rows of an export: row a, which an earlier import may have made a
\* project of, with its etag kept or changed; row b, which is new, from a
\* known or an unknown createUser; each with data that is valid, valid after
\* the retry, or invalid; and rows that are incomplete, deleted, or lack
\* the key
RowSet ==
    { MkRow(<<"uuid:", "a">>, <<"uuid:", etag>>, "COMPLETE", "false", "u1@x",
            cols) :
        etag \in {"e1", "e2"}, cols \in {ColsValid, ColsBadEmail, ColsNoName} }
    \cup
    { MkRow(<<"uuid:", "b">>, <<"uuid:", "e1">>, "COMPLETE", "false", user,
            cols) :
        user \in {"u1@x", "nobody@x"},
        cols \in {ColsValid, ColsBadEmail, ColsNoName} }
    \cup
    { MkRow(<<"uuid:", "a">>, <<"uuid:", "e1">>, sd[1], sd[2], "u1@x",
            ColsValid) :
        sd \in { <<"Complete", "false">>, <<"INCOMPLETE", "false">>,
                 <<Absent, "false">>, <<"COMPLETE", "true">>,
                 <<"COMPLETE", Absent>>, <<"INCOMPLETE", Absent>> } }

\* the Project table before the run: none, or one project that an earlier
\* import made from row a, its etag kept or set to None by an edit in the UI
InitialProjects ==
    { {} } \cup
    { {[id |-> 1, odk_id |-> <<"a">>, odk_etag |-> etag,
        draft |-> [name |-> <<"x">>], owner |-> "u1@x", saves |-> 1]} :
        etag \in {NoEtag, <<"e1">>} }

InitOdk ==
    /\ pc = "start"
    /\ projects \in InitialProjects
    /\ users = {"u1@x"}
    /\ mails = <<>> /\ log = <<>> /\ organisations = {}
    /\ requests = <<>> /\ rows = <<>> /\ row_i = 0
    /\ run = 1 /\ before = [projects |-> projects, mails |-> mails]
    /\ ParserIdle /\ NotifyIdle

\* mutant: the login's status is not checked
AfterLogin_NoRaise(status_ok) == "logged_in"

\* login_response.raise_for_status()
AfterLogin(status_ok) == IF status_ok THEN "logged_in" ELSE "raised"

\* s.post(login_url); login_response.raise_for_status()
Login ==
    /\ pc = "start"
    /\ \E status_ok \in BOOLEAN :
          /\ requests' = Append(requests, [url |-> "login", ok |-> status_ok])
          /\ pc' = AfterLogin(status_ok)
    /\ UNCHANGED <<projects, mails, log, organisations, columns, parsed, rows,
                   row_i, users, runs, notify>>

\* res = s.get(import_url); res.raise_for_status(); res.json().  The export
\* does not change between the runs: a later run gets the rows of the first.
Export ==
    /\ pc = "logged_in"
    /\ \E status_ok \in BOOLEAN :
          /\ requests' = Append(requests, [url |-> "export", ok |-> status_ok])
          /\ IF status_ok
             THEN /\ pc' = "sync"
                  /\ IF run = 1 THEN rows' \in SeqsUpTo(RowSet, MaxRows)
                     ELSE rows' = rows
             ELSE /\ pc' = "raised"
                  /\ rows' = rows
    /\ UNCHANGED <<projects, mails, log, organisations, columns, parsed, row_i,
                   users, runs, notify>>

\* start_sync: the loop body for the next row
StartSyncRow ==
    /\ pc = "sync"
    /\ row_i < Len(rows)
    /\ \E w \in {SyncRow(World, rows[row_i + 1])} :
          /\ projects' = w.projects
          /\ mails' = w.mails
          /\ log' = w.log
          /\ organisations' = w.organisations
    /\ row_i' = row_i + 1
    /\ UNCHANGED <<pc, columns, parsed, requests, rows, users, runs, notify>>

\* start_sync: the loop is over
EndSync ==
    /\ pc = "sync"
    /\ row_i = Len(rows)
    /\ pc' = "done"
    /\ UNCHANGED <<projects, mails, log, organisations, columns, parsed,
                   requests, rows, row_i, users, runs, notify>>

NextOdk == Login \/ Export \/ StartSyncRow \/ EndSync

SpecOdk == InitOdk /\ [][NextOdk]_vars

\* the scheduler starts the task again (line 202): a new session, the loop
\* from the first row, on the tables the run before left
Rerun ==
    /\ pc = "done"
    /\ run < MaxRuns
    /\ run' = run + 1
    /\ before' = [projects |-> projects, mails |-> mails]
    /\ pc' = "start"
    /\ requests' = <<>>
    /\ row_i' = 0
    /\ UNCHANGED <<projects, mails, log, organisations, columns, parsed, rows,
                   users, notify>>

NextOdkRuns == Login \/ Export \/ StartSyncRow \/ EndSync \/ Rerun

SpecOdkRuns == InitOdk /\ [][NextOdkRuns]_vars

\* ------------------------------------------ send_project_approval_digest
\* A UserProfile is [id, country, language]; its user's email stands for
\* itself and is the profile's id.  A project here is [id, country,
\* approved], approved being "null" while the approval is undecided.
OdkTablesIdle == /\ organisations = {} /\ users = {} /\ requests = <<>>
                 /\ rows = <<>> /\ row_i = 0 /\ log = <<>>
                 /\ FirstRun

\* country.users.all()
CountryUsers(country) == {p \in profiles : p.country = country.id}

\* Project.objects.filter(data__country=..., approval__approved__isnull=True)
PendingProjects(country) ==
    {p \in projects : p.country = country.id /\ p.approved = "null"}

FirstId(us) == CHOOSE n \in {p.id : p \in us} : \A q \in us : n <= q.id

\* email_mapping[profile.language].append(profile.user.email)
EmailList(us, language) == {p.id : p \in {q \in us : q.language = language}}

\* one mail per key of email_mapping, in the order the keys were inserted
RECURSIVE DigestMails(_, _, _)
DigestMails(country, us, languages) ==
    IF languages = {} THEN <<>>
    ELSE LET l == CHOOSE x \in languages : \A y \in languages :
                     FirstId({p \in us : p.language = x})
                        <= FirstId({p \in us : p.language = y})
         IN << [subject |-> "approval", to |-> EmailList(us, l),
                language |-> l, country |-> country.id,
                projects |-> {p.id : p \in PendingProjects(country)}] >>
            \o DigestMails(country, us, languages \ {l})

CountrySeqs ==
    {cs \in [1..MaxCountries ->
                [id : 1..MaxCountries, project_approval : BOOLEAN]] :
        \A i, j \in 1..MaxCountries : i # j => cs[i].id # cs[j].id}

ProfileSets ==
    {{[id |-> 1, country |-> c[1], language |-> "en"],
      [id |-> 2, country |-> c[2], language |-> "fr"],
      [id |-> 3, country |-> c[3], language |-> "en"]} :
        c \in [1..3 -> 0..MaxCountries]}

DigestProjectSets ==
    {{[id |-> i, country |-> f[i][1], approved |-> f[i][2]] :
         i \in 1..MaxProjects} :
        f \in [1..MaxProjects -> (1..MaxCountries) \X {"null", "yes"}]}

InitDigest ==
    /\ pc = "start"
    /\ countries \in CountrySeqs
    /\ profiles \in ProfileSets
    /\ projects \in DigestProjectSets
    /\ mails = <<>> /\ todo = <<>>
    /\ reviews = {} /\ production = FALSE /\ donors = {} /\ kept = {}
    /\ ParserIdle /\ OdkTablesIdle

\* countries = Country.objects.exclude(users=None)
DigestStart ==
    /\ pc = "start"
    /\ todo' = SelectSeq(countries, LAMBDA c : CountryUsers(c) # {})
    /\ pc' = "digest"
    /\ UNCHANGED <<projects, mails, log, organisations, columns, parsed,
                   requests, rows, row_i, users, runs, profiles, countries, reviews,
                   production, donors, kept>>

\* lines 181-199: the loop body for the next country; `return` where the
\* country has no pending project
DigestCountry ==
    /\ pc = "digest"
    /\ todo # <<>>
    /\ \E country \in {Head(todo)} :
          IF ~country.project_approval
          THEN /\ todo' = Tail(todo)
               /\ UNCHANGED <<pc, mails>>
          ELSE IF PendingProjects(country) = {}
          THEN /\ pc' = "done"
               /\ UNCHANGED <<todo, mails>>
          ELSE /\ mails' = mails \o
                     DigestMails(country, CountryUsers(country),
                                 {p.language : p \in CountryUsers(country)})
               /\ todo' = Tail(todo)
               /\ UNCHANGED pc
    /\ UNCHANGED <<projects, log, organisations, columns, parsed, requests,
                   rows, row_i, users, runs, profiles, countries, reviews,
                   production, donors, kept>>

DigestEnd ==
    /\ pc = "digest"
    /\ todo = <<>>
    /\ pc' = "done"
    /\ UNCHANGED <<projects, mails, log, organisations, columns, parsed,
                   requests, rows, row_i, users, runs, notify>>

NextDigest == DigestStart \/ DigestCountry \/ DigestEnd

SpecDigest == InitDigest /\ [][NextDigest]_vars

\* --------------------------------- project_review_requested_notification
\* A ReviewScore is [id, complete, age, reviewer]: age is the number of days
\* since it was modified, reviewer a UserProfile id.
NOTIFICATION_PROJECT_REVIEW_DAYS == 30

\* ReviewScore.objects.filter(complete=False).filter(modified__lt=...)
incomplete_reviews ==
    {r \in reviews : ~r.complete /\ r.age > NOTIFICATION_PROJECT_REVIEW_DAYS}

\* queryset.first(): the row with the lowest id
FirstOf(qs) == CHOOSE x \in qs : \A y \in qs : x.id <= y.id

ReviewSets ==
    UNION {{{[id |-> i, complete |-> f[i][1], age |-> f[i][2],
              reviewer |-> f[i][3]] : i \in 1..n} :
              f \in [1..n -> BOOLEAN \X {30, 31} \X {1, 2}]} :
           n \in 0..MaxReviews}

InitReview ==
    /\ pc = "start"
    /\ reviews \in ReviewSets
    /\ profiles \in {{[id |-> 1, country |-> 0, language |-> "en"]},
                     {[id |-> 1, country |-> 0, language |-> "en"],
                      [id |-> 2, country |-> 0, language |-> "fr"]}}
    /\ production \in BOOLEAN
    /\ mails = <<>> /\ todo = <<>>
    /\ projects = {} /\ countries = <<>> /\ donors = {} /\ kept = {}
    /\ ParserIdle /\ OdkTablesIdle

\* lines 61-71: the query, the early return, and the binding of `reviews`,
\* which only the branch for EMAIL_SENDING_PRODUCTION false assigns: with it
\* true, `for review in reviews` raises UnboundLocalError
ReviewStart ==
    /\ pc = "start"
    /\ IF incomplete_reviews = {}
       THEN pc' = "done" /\ todo' = todo
       ELSE IF ~production
       THEN pc' = "reviews" /\ todo' = <<FirstOf(incomplete_reviews)>>
       ELSE pc' = "raised" /\ todo' = todo
    /\ UNCHANGED <<projects, mails, log, organisations, columns, parsed,
                   requests, rows, row_i, users, runs, profiles, countries, reviews,
                   production, donors, kept>>

\* UserProfile.objects.get(id=...)
ProfileById(id) == {p \in profiles : p.id = id}

\* lines 72-90: the loop body for the next review
ReviewSend ==
    /\ pc = "reviews"
    /\ todo # <<>>
    /\ mails' = IF ProfileById(Head(todo).reviewer) = {} THEN mails
                ELSE Append(mails, [subject |-> "review",
                                    to |-> Head(todo).reviewer,
                                    reviewscore |-> Head(todo).id])
    /\ todo' = Tail(todo)
    /\ UNCHANGED <<pc, projects, log, organisations, columns, parsed, requests,
                   rows, row_i, users, runs, profiles, countries, reviews,
                   production, donors, kept>>

ReviewEnd ==
    /\ pc = "reviews"
    /\ todo = <<>>
    /\ pc' = "done"
    /\ UNCHANGED <<projects, mails, log, organisations, columns, parsed,
                   requests, rows, row_i, users, runs, notify>>

NextReview == ReviewStart \/ ReviewSend \/ ReviewEnd

SpecReview == InitReview /\ [][NextReview]_vars

\* ------------------------------------------ exclude_specific_project_stages
\* A project here is [id, public_id, age, team, draft_answer, data_answer]:
\* age is the number of days since it was modified, team a set of
\* UserProfile ids, and the two answers are the texts stored under
\* draft/data __donor_custom_answers__<unicef.id>__<question.id>, <<>> when
\* there is none.  Texts are sequences of words.
stages_to_exclude == << <<"Discontinued">>, <<"Scale", "and", "Handover">> >>

\* the __icontains lookup
IContains(text, pattern) ==
    \E i \in 1..(Len(text) - Len(pattern) + 1) :
        Lower(SubSeq(text, i, i + Len(pattern) - 1)) = Lower(pattern)

Answer(p, filter_key_prefix) ==
    IF filter_key_prefix = "draft" THEN p.draft_answer ELSE p.data_answer

\* filtered_projects after the loop over the first n stages
RECURSIVE FilteredProjects(_, _, _)
FilteredProjects(qs, filter_key_prefix, n) ==
    IF n = 0 THEN {}
    ELSE FilteredProjects(qs, filter_key_prefix, n - 1)
         \cup {p \in qs : IContains(Answer(p, filter_key_prefix),
                                    stages_to_exclude[n])}

\* mutant: each stage's filter replaces the one before it
ExcludeFiltered_LastStageOnly(qs, filter_key_prefix) ==
    qs \ {p \in qs : IContains(Answer(p, filter_key_prefix),
                               stages_to_exclude[Len(stages_to_exclude)])}

\* lines 41-49
ExcludeFiltered(qs, filter_key_prefix) ==
    IF FilteredProjects(qs, filter_key_prefix, Len(stages_to_exclude)) # {}
    THEN qs \ FilteredProjects(qs, filter_key_prefix, Len(stages_to_exclude))
    ELSE qs

exclude_specific_project_stages(qs, filter_key_prefix) ==
    IF ~\E d \in donors : d.name = "UNICEF" THEN qs
    ELSE IF ~\E d \in donors : d.name = "UNICEF" /\ "Stage" \in d.questions
    THEN qs
    ELSE ExcludeFiltered(qs, filter_key_prefix)

AnswerSet == { <<>>, <<"Discontinued">>, <<"discontinued">>,
               <<"Scale", "and", "Handover">>, <<"Scale", "up">> }

\* the draft and the data answer of a project: one of them given, or two
\* that differ in whether they exclude
AnswerPairs ==
    {<<a, <<>> >> : a \in AnswerSet} \cup {<< <<>>, a>> : a \in AnswerSet}
    \cup { << <<"Discontinued">>, <<"Scale", "up">> >>,
           << <<"Scale", "up">>, <<"Scale", "and", "Handover">> >> }

DonorSets == { {}, {[name |-> "UNICEF", questions |-> {}]},
               {[name |-> "UNICEF", questions |-> {"Stage"}]},
               {[name |-> "WHO", questions |-> {"Stage"}]} }

ExcludeProjectSets ==
    UNION {{{[id |-> i, public_id |-> "", age |-> 0, team |-> {},
              draft_answer |-> f[i][1], data_answer |-> f[i][2]] :
                 i \in 1..n} :
              f \in [1..n -> AnswerPairs]} :
           n \in 0..MaxProjects}

InitExclude ==
    /\ pc = "start"
    /\ projects \in ExcludeProjectSets
    /\ donors \in DonorSets
    /\ kept = {}
    /\ mails = <<>> /\ todo = <<>>
    /\ profiles = {} /\ countries = <<>> /\ reviews = {}
    /\ production = FALSE
    /\ ParserIdle /\ OdkTablesIdle

Exclude ==
    /\ pc = "start"
    /\ \E filter_key_prefix \in {"draft", "data"} :
          /\ kept' = exclude_specific_project_stages(projects,
                                                     filter_key_prefix)
          /\ pc' = IF filter_key_prefix = "draft" THEN "excluded_draft"
                   ELSE "excluded_data"
    /\ UNCHANGED <<projects, mails, log, organisations, columns, parsed,
                   requests, rows, row_i, users, runs, profiles, countries, reviews,
                   production, todo, donors>>

NextExclude == Exclude

SpecExclude == InitExclude /\ [][NextExclude]_vars

\* --------------- project_still_in_draft_notification and
\* --------------- published_projects_updated_long_ago
\* Project.objects.draft_only() / published_only(): a project is published
\* once it has a public_id
draft_only == {p \in projects : p.public_id = ""}
published_only == {p \in projects : p.public_id # ""}

\* `if not settings.EMAIL_SENDING_PRODUCTION: projects = ...first()`
LimitEmails(qs) == IF production \/ qs = {} THEN qs ELSE {FirstOf(qs)}

\* lines 100-109
DraftProjects ==
    LimitEmails(exclude_specific_project_stages(
                    {p \in draft_only : p.age > 31}, "draft"))

\* lines 143-152
PublishedProjects ==
    LimitEmails(exclude_specific_project_stages(
                    {p \in published_only : p.age > 180}, "data"))

TaskProjects == IF pc = "draft" THEN DraftProjects ELSE PublishedProjects

\* set(projects.values_list('team', flat=True))
project_team_members(qs) == UNION {p.team : p \in qs}

\* mutant: the mail lists every project of the run
member_projects_All(qs, member) == {p.id : p \in qs}

\* [project for project in projects.filter(team=member)]
member_projects(qs, member) == {p.id : p \in {q \in qs : member \in q.team}}

\* a project of the table: <<public_id, age>>, team, <<draft, data answer>>
ReminderProjectKinds ==
    { << <<"", 32>>, {1}, << <<>>, <<>> >> >>,
      << <<"", 32>>, {1, 2}, << <<>>, <<>> >> >>,
      << <<"", 32>>, {2, 3}, << <<>>, <<>> >> >>,
      << <<"", 31>>, {1}, << <<>>, <<>> >> >>,
      << <<"", 32>>, {1, 2}, << <<"Discontinued">>, <<>> >> >>,
      << <<"", 32>>, {2, 3}, << <<>>, <<"Discontinued">> >> >>,
      << <<"pub", 181>>, {1}, << <<>>, <<>> >> >>,
      << <<"pub", 181>>, {1, 2}, << <<>>, <<>> >> >>,
      << <<"pub", 181>>, {2, 3}, << <<>>, <<"Discontinued">> >> >>,
      << <<"pub", 181>>, {2, 3}, << <<"Discontinued">>, <<>> >> >>,
      << <<"pub", 180>>, {2, 3}, << <<>>, <<>> >> >> }

ReminderProjectSets ==
    UNION {{{[id |-> i, public_id |-> f[i][1][1], age |-> f[i][1][2],
              team |-> f[i][2],
              draft_answer |-> f[i][3][1], data_answer |-> f[i][3][2]] :
                 i \in 1..n} :
              f \in [1..n -> ReminderProjectKinds]} :
           n \in 0..MaxProjects}

InitReminder ==
    /\ pc = "start"
    /\ projects \in ReminderProjectSets
    /\ donors \in {{}, {[name |-> "UNICEF", questions |-> {"Stage"}]}}
    /\ production \in BOOLEAN
    /\ profiles = {[id |-> 1, country |-> 0, language |-> "en"],
                   [id |-> 2, country |-> 0, language |-> "fr"]}
    /\ mails = <<>> /\ todo = {} /\ kept = {}
    /\ countries = <<>> /\ reviews = {}
    /\ ParserIdle /\ OdkTablesIdle

\* lines 100-111
DraftStart ==
    /\ pc = "start"
    /\ IF DraftProjects = {}
       THEN pc' = "done_draft" /\ todo' = todo
       ELSE pc' = "draft" /\ todo' = project_team_members(DraftProjects)
    /\ UNCHANGED <<projects, mails, log, organisations, columns, parsed,
                   requests, rows, row_i, users, runs, profiles, countries, reviews,
                   production, donors, kept>>

\* lines 143-154
PublishedStart ==
    /\ pc = "start"
    /\ IF PublishedProjects = {}
       THEN pc' = "done_published" /\ todo' = todo
       ELSE pc' = "published"
            /\ todo' = project_team_members(PublishedProjects)
    /\ UNCHANGED <<projects, mails, log, organisations, columns, parsed,
                   requests, rows, row_i, users, runs, profiles, countries, reviews,
                   production, donors, kept>>

\* lines 113-133 and 156-175: the loop body for a member, in any order
ReminderSend ==
    /\ pc \in {"draft", "published"}
    /\ \E member \in todo :
          /\ mails' = IF ProfileById(member) = {} THEN mails
                      ELSE Append(mails,
                                  [subject |-> pc, to |-> member,
                                   projects |->
                                       member_projects(TaskProjects, member)])
          /\ todo' = todo \ {member}
    /\ UNCHANGED <<pc, projects, log, organisations, columns, parsed, requests,
                   rows, row_i, users, runs, profiles, countries, reviews,
                   production, donors, kept>>

ReminderEnd ==
    /\ pc \in {"draft", "published"}
    /\ todo = {}
    /\ pc' = IF pc = "draft" THEN "done_draft" ELSE "done_published"
    /\ UNCHANGED <<projects, mails, log, organisations, columns, parsed,
                   requests, rows, row_i, users, runs, notify>>

NextReminder == DraftStart \/ PublishedStart \/ ReminderSend \/ ReminderEnd

SpecReminder == InitReminder /\ [][NextReminder]_vars

\* ------------------------------------------------------------ claims
\* what the claims about one row of the import speak of: the row that the
\* step handles, its identifiers, and what the serializer says of its data
RowStep == pc = "sync" /\ row_i' = row_i + 1
Row == rows[row_i + 1]
RowOdkId == uuid_parser(Row["id"])
RowEtag == uuid_parser(Row["rowETag"])
RowExisting == {p \in projects : p.odk_id = RowOdkId}
RowData == parse_odk_data(Row, RowEtag, RowOdkId, odk_extra_data_of(Row),
                          organisations).project
RowErrors == SerializerErrors(RowData)
RowReduced == Pop(RowData, RowErrors)
RowErrors2 == SerializerErrors(RowReduced)
RowValidAfterRetry == RowErrors = {} \/ RowErrors2 = {}
RowHasUser == Get(Row, "createUser", PyNone) \in users
SavedKeys(data) == Pop(data, {"odk_id", "odk_etag", "odk_extra_data"})

\* the step created one project, for this row's odk_id and etag
Created ==
    \E p \in projects' :
        /\ p.id \notin {q.id : q \in projects}
        /\ p.odk_id = RowOdkId /\ p.odk_etag = RowEtag
        /\ projects' = projects \cup {p}

\* the step saved project e again, with this row's etag, and made no other
Updated(e) ==
    \E p \in projects' :
        /\ p.id = e.id /\ p.odk_id = e.odk_id /\ p.odk_etag = RowEtag
        /\ p.saves = e.saves + 1
        /\ projects' = (projects \ {e}) \cup {p}

NothingSaved == projects' = projects /\ mails' = mails

\* C1 as amended: a complete, non-deleted row is upserted by its odk_id.
\* With no project of that odk_id, one is created when the row's data is
\* valid (after at most one retry) and its createUser is a User, and nothing
\* is saved otherwise; a project whose etag differs is the one updated when
\* the data is valid, and no other is made; a project whose etag is None or
\* equal is left as it is and nothing is saved.
C1_UpsertByOdkId ==
    [][ (RowStep /\ IsCompleteNotDeleted(Row)) =>
          /\ Cardinality(RowExisting) <= 1
          /\ RowExisting = {} =>
                IF RowValidAfterRetry /\ RowHasUser THEN Created
                ELSE NothingSaved
          /\ \A e \in RowExisting :
                IF e.odk_etag \in {NoEtag, RowEtag} THEN NothingSaved
                ELSE IF RowValidAfterRetry THEN Updated(e) /\ mails' = mails
                ELSE NothingSaved ]_vars

\* C1 as stated: a new project is created whenever none has the odk_id, and
\* the existing one is updated whenever its etag differs.
C1_AsStated ==
    [][ (RowStep /\ IsCompleteNotDeleted(Row)) =>
          /\ RowExisting = {} => Created
          /\ \A e \in RowExisting :
                IF e.odk_etag \in {NoEtag, RowEtag} THEN NothingSaved
                ELSE Updated(e) ]_vars

\* one run created a project for row b and updated the project of row a
C1_Witness ==
    /\ pc = "done"
    /\ \E p \in projects : p.odk_id = <<"a">> /\ p.saves = 2
    /\ \E p \in projects : p.odk_id = <<"b">> /\ p.saves = 1

\* the row goes to serialize_and_save: it is new, or its etag is newer
RowHanded ==
    /\ IsCompleteNotDeleted(Row)
    /\ \A e \in RowExisting : e.odk_etag \notin {NoEtag, RowEtag}

SavedReduced == \E p \in projects' \ projects : p.draft = SavedKeys(RowReduced)

LogEndsWith(l, tail) ==
    /\ Len(l) >= Len(tail)
    /\ SubSeq(l, Len(l) - Len(tail) + 1, Len(l)) = tail

\* C2 as amended: when the first validation of a row's data fails, the
\* fields named in the errors are removed and the reduced data is validated
\* once more.  If that succeeds the reduced data, and no further reduced
\* data, is what is saved, except that a new row whose createUser is no User
\* is logged and not saved; if it fails nothing is saved, no mail is sent,
\* the failure is logged and the next row is processed.
C2_RetryOnce ==
    [][ (RowStep /\ RowHanded /\ RowErrors # {}) =>
          /\ pc' = "sync"
          /\ IF RowErrors2 # {}
             THEN /\ NothingSaved
                  /\ LogEndsWith(log', << <<"errors", RowErrors>>,
                                         <<"Validation error/s:">>,
                                         <<"errors", RowErrors2>> >>)
             ELSE IF RowExisting # {} \/ RowHasUser
             THEN SavedReduced
             ELSE /\ NothingSaved
                  /\ LogEndsWith(log', << <<"No user with following email",
                                           Get(Row, "createUser", PyNone)>> >>)
      ]_vars

\* C2 as stated: whenever the second validation succeeds the reduced data
\* is saved.
C2_AsStated ==
    [][ (RowStep /\ RowHanded /\ RowErrors # {}) =>
          /\ pc' = "sync"
          /\ IF RowErrors2 # {} THEN NothingSaved ELSE SavedReduced ]_vars

\* a run saved one row without its bad contact_email and gave up another
C2_Witness ==
    /\ pc = "done"
    /\ \E p \in projects :
          /\ "interoperability_links" \in DOMAIN p.draft
          /\ "name" \in DOMAIN p.draft
          /\ "contact_email" \notin DOMAIN p.draft
    /\ \E i \in 1..Len(log) : log[i] = <<"Validation error/s:">>

\* C3: the login is requested before the export, the export only after a
\* login that succeeded, and a request that failed is the task's last step:
\* no row was processed, no project saved, nothing logged, no mail sent.
C3_LoginThenExport ==
    /\ Len(requests) <= 2
    /\ Len(requests) >= 1 => requests[1].url = "login"
    /\ Len(requests) = 2 => requests[1].ok /\ requests[2].url = "export"
    /\ (\E i \in 1..Len(requests) : ~requests[i].ok) =>
          /\ pc = "raised" /\ row_i = 0 /\ rows = <<>>
          /\ mails = <<>> /\ log = <<>> /\ projects \in InitialProjects
    /\ row_i > 0 => Len(requests) = 2 /\ requests[2].ok

\* the login failed
C3_Witness ==
    pc = "raised" /\ Len(requests) = 1 /\ ~requests[1].ok

\* C8 as stated: a row goes to save_or_update_project only if it has a
\* savepointType that is 'complete' in any case and a deleted that is not
\* 'true'; a row with either key missing is logged as incomplete or deleted
\* and changes nothing.
C8_OnlyCompleteRows ==
    [][ (RowStep /\ ~(/\ "savepointType" \in DOMAIN Row
                      /\ LowerTok(Row["savepointType"]) = "complete"
                      /\ "deleted" \in DOMAIN Row
                      /\ Row["deleted"] # "true")) =>
          /\ NothingSaved
          /\ LogEndsWith(log', << <<"Incomplete or deleted">> >>) ]_vars

MailsOf(country) == {k \in 1..Len(mails) : mails[k].country = country.id}

\* C4 as stated: when the digest has run, every country that has a user,
\* project_approval and a pending project got one mail per language of its
\* users, to exactly its users of that language and listing its pending
\* projects, whatever the other countries of the run; every other country
\* got none.
C4_DigestPerCountry ==
    pc = "done" =>
      \A i \in 1..Len(countries) :
        IF /\ CountryUsers(countries[i]) # {}
           /\ countries[i].project_approval
           /\ PendingProjects(countries[i]) # {}
        THEN \A l \in {p.language : p \in CountryUsers(countries[i])} :
               /\ Cardinality({k \in MailsOf(countries[i]) :
                                  mails[k].language = l}) = 1
               /\ \A k \in MailsOf(countries[i]) :
                     mails[k].language = l =>
                       /\ mails[k].to = EmailList(CountryUsers(countries[i]), l)
                       /\ mails[k].projects =
                            {p.id : p \in PendingProjects(countries[i])}
        ELSE MailsOf(countries[i]) = {}

\* the reviews the task has to remind of: every stale incomplete one in
\* production, only the first one otherwise
ReviewsToRemind ==
    IF incomplete_reviews = {} THEN {}
    ELSE IF production THEN incomplete_reviews
    ELSE {FirstOf(incomplete_reviews)}

MailsOfReview(r) == {k \in 1..Len(mails) : mails[k].reviewscore = r.id}

\* C5 as stated: with a stale incomplete review the task ends without an
\* error, for both values of EMAIL_SENDING_PRODUCTION, having sent one mail
\* for each review it has to remind of whose reviewer has a profile, and
\* none for any other review.
C5_ReviewReminders ==
    (pc \in {"done", "raised"} /\ incomplete_reviews # {}) =>
      /\ pc = "done"
      /\ \A r \in reviews :
            Cardinality(MailsOfReview(r)) =
              IF r \in ReviewsToRemind /\ ProfileById(r.reviewer) # {}
              THEN 1 ELSE 0

\* C7 as stated, for the review reminders: a stale review whose reviewer has
\* no profile does not abort the task, and the reviewers that have one still
\* get their mail.
C7_MissingProfileSkipped ==
    (/\ pc \in {"done", "raised"}
     /\ \E r \in ReviewsToRemind : ProfileById(r.reviewer) = {}) =>
      /\ pc = "done"
      /\ \A r \in ReviewsToRemind :
            ProfileById(r.reviewer) # {} => MailsOfReview(r) # {}

HasStageQuestion ==
    \E d \in donors : d.name = "UNICEF" /\ "Stage" \in d.questions

StageExcluded(text) ==
    /\ HasStageQuestion
    /\ \/ IContains(text, <<"Discontinued">>)
       \/ IContains(text, <<"Scale", "and", "Handover">>)

\* the projects a reminder task is about
Qualifying(task) ==
    IF task = "draft"
    THEN {p \in projects : /\ p.public_id = "" /\ p.age > 31
                           /\ ~StageExcluded(p.draft_answer)}
    ELSE {p \in projects : /\ p.public_id # "" /\ p.age > 180
                           /\ ~StageExcluded(p.data_answer)}

MailsTo(u) == {k \in 1..Len(mails) : mails[k].to = u}

RemindersRight(task) ==
    /\ \A k \in 1..Len(mails) : mails[k].subject = task
    /\ \A u \in {p.id : p \in profiles} \cup UNION {p.team : p \in projects} :
          IF ProfileById(u) # {} /\ \E p \in Qualifying(task) : u \in p.team
          THEN /\ Cardinality(MailsTo(u)) = 1
               /\ \A k \in MailsTo(u) :
                     mails[k].projects =
                        {p.id : p \in {q \in Qualifying(task) : u \in q.team}}
          ELSE MailsTo(u) = {}

\* C6: in production, when either reminder task has run, every profile on
\* the team of a qualifying, non-excluded project got exactly one mail, which
\* lists exactly the qualifying, non-excluded projects of that profile, and
\* nobody else got a mail (none at all when no project qualifies).
C6_ReminderRecipients ==
    /\ (pc = "done_draft" /\ production) => RemindersRight("draft")
    /\ (pc = "done_published" /\ production) => RemindersRight("published")

\* two team members got mails listing different projects
C6_Witness ==
    /\ pc = "done_draft" /\ production
    /\ Len(mails) = 2
    /\ mails[1].projects # mails[2].projects
    /\ \E p \in Qualifying("draft") : 3 \in p.team

ExcludedPrefix == IF pc = "excluded_draft" THEN "draft" ELSE "data"

\* C9 as amended: the function returns the input projects minus those whose
\* answer under the given prefix contains 'Discontinued' or 'Scale and
\* Handover', letter case ignored; every other project is kept, and without
\* the UNICEF donor or its 'Stage' question the input is returned unchanged.
C9_ExcludeStages ==
    pc \in {"excluded_draft", "excluded_data"} =>
      kept = {p \in projects : ~StageExcluded(Answer(p, ExcludedPrefix))}

\* `pattern in text`, letter case kept
ContainsText(text, pattern) ==
    \E i \in 1..(Len(text) - Len(pattern) + 1) :
        SubSeq(text, i, i + Len(pattern) - 1) = pattern

\* C9 as stated: only an answer that contains 'Discontinued' or 'Scale and
\* Handover' as written removes a project; any other answer keeps it.
C9_AsStated ==
    pc \in {"excluded_draft", "excluded_data"} =>
      kept = {p \in projects :
                ~(/\ HasStageQuestion
                  /\ \/ ContainsText(Answer(p, ExcludedPrefix),
                                     <<"Discontinued">>)
                     \/ ContainsText(Answer(p, ExcludedPrefix),
                                     <<"Scale", "and", "Handover">>))}

\* a project was removed for its data answer and another was kept
C9_Witness ==
    /\ pc = "excluded_data"
    /\ kept # {} /\ kept # projects
    /\ \E p \in projects \ kept : p.draft_answer = <<>>

IsColumn(column, tok) ==
    "column" \in DOMAIN column /\ Contains(column.column, tok)

DhiColumns == SelectSeq(columns, LAMBDA c : IsColumn(c, "dhi"))

\* (1) the strategies of the k-th platform are those of the k-th dhi column
C10_Strategies ==
    \A k \in 1..Len(Get(parsed, "platforms", <<>>)) :
        "strategies" \in DOMAIN parsed["platforms"][k] =>
          /\ k <= Len(DhiColumns)
          /\ IntListOf(Get(DhiColumns[k], "value", <<>>)).ok
          /\ IntListOf(Get(DhiColumns[k], "value", <<>>)).val
               = parsed["platforms"][k]["strategies"]

\* (2) a link's url is that of the url column of the id column that chose it
C10_LinkUrls ==
    \A n \in 1..Len(parsed["interoperability_links"]) :
        "link" \in DOMAIN parsed["interoperability_links"][n] =>
          \E i, j \in 1..Len(columns) :
            /\ HasColumnAndValue(columns[i]) /\ HasColumnAndValue(columns[j])
            /\ IsColumn(columns[i], "interoperability_link_")
            /\ ~IsColumn(columns[i], "_url")
            /\ escaped_int_converter(columns[i].value)
                 = Ok(parsed["interoperability_links"][n].id)
            /\ columns[j].column = Append(columns[i].column, "_url")
            /\ parsed["interoperability_links"][n].link
                 = Lower(columns[j].value)

\* (3) a column that cannot be converted does not stop the columns after it
C10_LaterColumns ==
    \A i \in 1..Len(columns) :
        /\ (HasColumnAndValue(columns[i]) /\ columns[i].column = <<"name">>)
              => "name" \in DOMAIN parsed
        /\ (HasColumnAndValue(columns[i])
            /\ columns[i].column = <<"organization">>)
              => "organisation" \in DOMAIN parsed

\* C10 as stated: the three properties of the parsed row.
C10_TwoPassParser ==
    pc = "parsed" => C10_Strategies /\ C10_LinkUrls /\ C10_LaterColumns

\* no two rows of the export have the same odk_id
DistinctOdkIds ==
    \A i, j \in 1..Len(rows) :
        uuid_parser(rows[i]["id"]) = uuid_parser(rows[j]["id"]) => i = j

\* the run has, so far, saved no project and sent no mail
RunChangedNothing ==
    projects = before.projects /\ mails = before.mails

OneProjectPerOdkId ==
    \A p, q \in projects : p.odk_id = q.odk_id => p = q

=============================================================================
